---- MODULE Spec2Model ----
(***************************************************************************)
(* Model of the product scraper of "Web Scraping/scraper.py": the          *)
(* selector-driven extraction of WebScraper.parse_products, the price      *)
(* normalisation of WebScraper._clean_price and the CSV serialisation of   *)
(* CSVExporter.export.                                                     *)
(*                                                                         *)
(* A Python str is a sequence of one-character strings; a dict is a        *)
(* function whose DOMAIN is its key set (a dict whose key order matters is *)
(* a sequence of <<key, value>> pairs); a list is a sequence.              *)
(***************************************************************************)
EXTENDS Naturals, Sequences, FiniteSets

VARIABLES
    \* ---- WebScraper.parse_products ----
    soup,           \* the parsed document: its nodes in document order
    selectors,      \* the selector dict handed to parse_products
    pc,             \* position of the call: "idle", "loop", "returned", "raised"
    containers,     \* soup.select(selectors['container'])
    idx,            \* number of containers the loop has gone through
    products,       \* the local list under construction
    origin,         \* history: origin[k] is the container index products[k] came from
    self_products,  \* WebScraper.products
    result,         \* what the call handed to its caller
    log,            \* the records the call emitted at the configured level
    \* ---- WebScraper._clean_price ----
    price_pc,       \* "in", "once", "twice"
    price_text,     \* the argument
    price_once,     \* _clean_price(price_text)
    price_twice,    \* _clean_price(_clean_price(price_text))
    \* ---- CSVExporter.export ----
    exp_pc,         \* "ready", "done"
    exp_products,   \* the list of dicts handed to export
    exp_file,       \* the lines of the written file
    \* ---- CSVExporter.export on the file system ----
    fs,             \* the file system: for each path whether it exists, and its lines
    clock,          \* datetime.now(), in seconds of the day
    io_pc,          \* "idle", "called", "writing", "returned", "raised"
    io_products,    \* the argument products
    io_filename,    \* the argument filename
    io_path,        \* the resolved filename
    io_written,     \* lines of the file written so far
    io_result,      \* what the call handed to its caller
    io_attempts,    \* history: times the call opened its destination
    exports,        \* history: calls of export so far
    generated,      \* history: the calls that opened a file under a generated name
    \* ---- a scraper instance over several calls ----
    calls,          \* history: calls of parse_products so far
    before,         \* history: soup, selectors and self.products when the call began
    last_returned,  \* history: the list the latest normal return handed out
    got,            \* what get_products handed to its caller since the call began
    \* ---- scrape_website ----
    webpage,        \* the page behind the url
    output_file,    \* the argument output_file
    sw_pc,          \* "idle", "start", "parsing", "exporting", "returned", "raised"
    sw_result,      \* what scrape_website handed to its caller
    fetched,        \* history: how fetch_page ended: "no", "ok", "raised"
    fetch_calls,    \* history: calls of fetch_page
    parse_calls,    \* history: calls of parse_products
    export_calls    \* history: calls of CSVExporter.export

vars == <<soup, selectors, pc, containers, idx, products, origin, self_products,
          result, log, price_pc, price_text, price_once, price_twice,
          exp_pc, exp_products, exp_file,
          fs, clock, io_pc, io_products, io_filename, io_path, io_written,
          io_result, io_attempts, exports, generated,
          calls, before, last_returned, got,
          webpage, output_file, sw_pc, sw_result, fetched, fetch_calls,
          parse_calls, export_calls>>

parse_vars == <<soup, selectors, pc, containers, idx, products, origin,
                self_products, result, log>>
price_vars == <<price_pc, price_text, price_once, price_twice>>
export_vars == <<exp_pc, exp_products, exp_file>>
io_vars == <<fs, clock, io_pc, io_products, io_filename, io_path, io_written,
             io_result, io_attempts, exports, generated>>
session_vars == <<calls, before, last_returned, got>>
sw_vars == <<webpage, output_file, sw_pc, sw_result, fetched, fetch_calls,
             parse_calls, export_calls>>

(***************************************************************************)
(* Bounds of the model.                                                    *)
(***************************************************************************)
\* nodes of a document
MaxNodes == 2
\* selector keys that are absent or invalid in one selector dict
MaxDefects == 1
\* characters of a price text
MaxPriceLen == 3
\* dicts in a list handed to export
MaxRecords == 2
\* seconds the clock advances
MaxTicks == 2
\* calls of export on one file system
MaxExports == 2
\* calls of parse_products on one scraper
MaxCalls == 2
\* nodes of a page parsed by a scraper that is used again, or by scrape_website
MaxPageNodes == 2

(***************************************************************************)
(* Strings.                                                                *)
(***************************************************************************)
\* str.isdigit-like class of the regex \d on a str pattern: the ASCII digits and
\* the other Unicode decimal digits (here ARABIC-INDIC DIGIT THREE).
Digits == {"0", "1", "2", "3", "4", "5", "6", "7", "8", "9", "U+0663"}

Whitespace == {" ", "\t"}

\* The sentinel 'N/A'.
NA == <<"N", "/", "A">>

RECURSIVE LStrip(_)
LStrip(s) ==
    IF s # <<>> /\ Head(s) \in Whitespace THEN LStrip(Tail(s)) ELSE s

RECURSIVE RStrip(_)
RStrip(s) ==
    IF s # <<>> /\ s[Len(s)] \in Whitespace
    THEN RStrip(SubSeq(s, 1, Len(s) - 1))
    ELSE s

\* str.strip()
Strip(s) == RStrip(LStrip(s))

(***************************************************************************)
(* WebScraper._clean_price                                                 *)
(***************************************************************************)
\* The characters the class [^\d.,] does NOT match: those re.sub leaves in place.
\* A class that keeps '/' too.
PriceCharKeptSlash(c) == c \in Digits \cup {".", ",", "/"}

PriceCharKept(c) == c \in Digits \cup {".", ","}

\* re.sub(r'[^\d.,]', '', price_text)
RECURSIVE ReSubPrice(_)
ReSubPrice(s) ==
    IF s = <<>> THEN <<>>
    ELSE IF PriceCharKept(Head(s))
         THEN <<Head(s)>> \o ReSubPrice(Tail(s))
         ELSE ReSubPrice(Tail(s))

\* A normalisation without the sentinel.
CleanPriceNoSentinel(price) == Strip(ReSubPrice(price))

_clean_price(price) ==
    LET cleaned == ReSubPrice(price)
    IN  IF cleaned # <<>> THEN Strip(cleaned) ELSE NA

(***************************************************************************)
(* The document and the query engine (BeautifulSoup select / select_one).  *)
(***************************************************************************)
\* What container.select_one(selector) finds below one container for a valid
\* selector: no descendant (None), the first matching element with its raw text,
\* or an exception of the query engine on this container.
NoMatch == [kind |-> "none", text |-> <<>>]
Element(t) == [kind |-> "node", text |-> t]
Raises == [kind |-> "raise", text |-> <<>>]

NameElems == {NoMatch, Element(<<" ", "A">>)}
PriceElems == {NoMatch, Element(<<"$", "5">>)}
RatingElems == {NoMatch, Element(<<"T">>), Raises}

\* A node of the document: whether the container selector matches it, and what
\* the three field selectors find below it.
Nodes ==
    [matches : {TRUE}, name : NameElems, price : PriceElems, rating : RatingElems]
    \cup [matches : {FALSE}, name : {NoMatch}, price : {NoMatch}, rating : {NoMatch}]

RECURSIVE SeqsUpTo(_, _)
SeqsUpTo(S, n) ==
    IF n = 0 THEN {<<>>}
    ELSE LET shorter == SeqsUpTo(S, n - 1)
         IN  shorter \cup {Append(q, x) : q \in shorter, x \in S}

Documents == SeqsUpTo(Nodes, MaxNodes)

\* The selector dict: its keys, and for each key present whether the query engine
\* accepts the selector string.
SelectorKeys == {"container", "name", "price", "rating"}

Defects(sel) ==
    Cardinality(SelectorKeys \ DOMAIN sel)
    + Cardinality({k \in DOMAIN sel : sel[k] = "invalid"})

SelectorConfigs ==
    {sel \in UNION {[D -> {"valid", "invalid"}] : D \in SUBSET SelectorKeys} :
        Defects(sel) <= MaxDefects}

\* selectors[key] followed by the engine's compilation of the selector: a KeyError
\* for an absent key, a syntax error for an invalid selector.
SelectorRaises(sel, key) == key \notin DOMAIN sel \/ sel[key] = "invalid"

IsContainer(node) == node.matches

\* A select that returns every node.
SelectAll(doc) == doc

\* soup.select(selectors['container']) for a valid selector: the matching nodes in
\* document order.
Select(doc) == SelectSeq(doc, IsContainer)

\* A select_one that answers None for a selector the engine rejects.
SelectOneLenient(container, sel, key) ==
    IF key \notin DOMAIN sel THEN Raises
    ELSE IF sel[key] = "invalid" THEN NoMatch
    ELSE container[key]

\* A select_one on selectors.get(key): an absent key finds nothing.
SelectOneGet(container, sel, key) ==
    IF key \notin DOMAIN sel THEN NoMatch
    ELSE IF sel[key] = "invalid" THEN Raises
    ELSE container[key]

\* container.select_one(selectors[key])
SelectOne(container, sel, key) ==
    IF SelectorRaises(sel, key) THEN Raises ELSE container[key]

\* elem.get_text(strip=True) of an element holding one text node
GetText(elem) == Strip(elem.text)

(***************************************************************************)
(* WebScraper._extract_product                                             *)
(***************************************************************************)
\* product[key] = value
Put(d, key, value) ==
    [k \in DOMAIN d \cup {key} |-> IF k = key THEN value ELSE d[k]]

\* A field that is left empty when nothing matches.
FieldTextEmpty(elem) == IF elem.kind = "node" THEN GetText(elem) ELSE <<>>

\* elem.get_text(strip=True) if elem else 'N/A'
FieldText(elem) == IF elem.kind = "node" THEN GetText(elem) ELSE NA

\* the price branch: _clean_price(price_elem.get_text(strip=True)) or 'N/A'
PriceText(elem) == IF elem.kind = "node" THEN _clean_price(GetText(elem)) ELSE NA

Raised == [raised |-> TRUE, product |-> <<>>]
Returned(product) == [raised |-> FALSE, product |-> product]

_extract_product(container, sel) ==
    LET name_elem == SelectOne(container, sel, "name")
        price_elem == SelectOne(container, sel, "price")
        rating_elem == SelectOne(container, sel, "rating")
    IN  IF name_elem.kind = "raise" THEN Raised
        ELSE LET p1 == Put(<<>>, "name", FieldText(name_elem))
             IN  IF price_elem.kind = "raise" THEN Raised
                 ELSE LET p2 == Put(p1, "price", PriceText(price_elem))
                      IN  IF rating_elem.kind = "raise" THEN Raised
                          ELSE Returned(Put(p2, "rating", FieldText(rating_elem)))

(***************************************************************************)
(* WebScraper.parse_products, one action per step of the call.             *)
(***************************************************************************)
LogRecord(level, msg, n) == [level |-> level, msg |-> msg, n |-> n]

NoResult == [kind |-> "none", value |-> <<>>]
ListResult(l) == [kind |-> "list", value |-> l]
RaisedResult == [kind |-> "raised", value |-> <<>>]

\* A call that swallows the failure of the container selector and returns [].
ParseBeginSwallow ==
    /\ pc = "idle"
    /\ products' = <<>>
    /\ origin' = <<>>
    /\ idx' = 0
    /\ IF SelectorRaises(selectors, "container")
       THEN /\ pc' = "returned"
            /\ containers' = <<>>
            /\ result' = ListResult(<<>>)
            /\ log' = <<LogRecord("error", "Error parsing products", 0)>>
       ELSE /\ pc' = "loop"
            /\ containers' = Select(soup)
            /\ result' = NoResult
            /\ log' = <<LogRecord("info", "Found", Len(Select(soup)))>>
    /\ UNCHANGED <<soup, selectors, self_products>>

\* A call that starts from the stored list.
ParseBeginAccumulate ==
    /\ pc = "idle"
    /\ products' = self_products
    /\ origin' = <<>>
    /\ idx' = 0
    /\ IF SelectorRaises(selectors, "container")
       THEN /\ pc' = "raised"
            /\ containers' = <<>>
            /\ result' = RaisedResult
            /\ log' = <<LogRecord("error", "Error parsing products", 0)>>
       ELSE /\ pc' = "loop"
            /\ containers' = Select(soup)
            /\ result' = NoResult
            /\ log' = <<LogRecord("info", "Found", Len(Select(soup)))>>
    /\ UNCHANGED <<soup, selectors, self_products>>

\* A call that empties the stored list when it starts.
ParseBeginClear ==
    /\ pc = "idle"
    /\ products' = <<>>
    /\ origin' = <<>>
    /\ idx' = 0
    /\ self_products' = <<>>
    /\ IF SelectorRaises(selectors, "container")
       THEN /\ pc' = "raised"
            /\ containers' = <<>>
            /\ result' = RaisedResult
            /\ log' = <<LogRecord("error", "Error parsing products", 0)>>
       ELSE /\ pc' = "loop"
            /\ containers' = Select(soup)
            /\ result' = NoResult
            /\ log' = <<LogRecord("info", "Found", Len(Select(soup)))>>
    /\ UNCHANGED <<soup, selectors>>

\* products = []; containers = soup.select(selectors['container']); the outer
\* except logs the error and re-raises.
ParseBegin ==
    /\ pc = "idle"
    /\ products' = <<>>
    /\ origin' = <<>>
    /\ idx' = 0
    /\ IF SelectorRaises(selectors, "container")
       THEN /\ pc' = "raised"
            /\ containers' = <<>>
            /\ result' = RaisedResult
            /\ log' = <<LogRecord("error", "Error parsing products", 0)>>
       ELSE /\ pc' = "loop"
            /\ containers' = Select(soup)
            /\ result' = NoResult
            /\ log' = <<LogRecord("info", "Found", Len(Select(soup)))>>
    /\ UNCHANGED <<soup, selectors, self_products>>

\* An insertion at the front of the list.
AppendFront(list, x) == <<x>> \o list

\* products.append(product)
ListAppend(list, x) == Append(list, x)

\* A loop without the inner try/except: a failing container ends the call.
ExtractStepAbort ==
    /\ pc = "loop"
    /\ idx < Len(containers)
    /\ LET r == _extract_product(containers[idx + 1], selectors)
       IN  IF r.raised
           THEN /\ log' = Append(log, LogRecord("error", "Error parsing products", 0))
                /\ pc' = "raised"
                /\ result' = RaisedResult
                /\ UNCHANGED <<products, origin>>
           ELSE /\ products' = ListAppend(products, r.product)
                /\ origin' = ListAppend(origin, idx + 1)
                /\ UNCHANGED <<log, pc, result>>
    /\ idx' = idx + 1
    /\ UNCHANGED <<soup, selectors, containers, self_products>>

\* One iteration of the for loop: the inner try/except around _extract_product.
ExtractStep ==
    /\ pc = "loop"
    /\ idx < Len(containers)
    /\ LET r == _extract_product(containers[idx + 1], selectors)
       IN  IF r.raised
           THEN /\ log' = Append(log, LogRecord("warning", "Error extracting product", idx + 1))
                /\ UNCHANGED <<products, origin>>
           ELSE IF DOMAIN r.product # {}
                THEN /\ products' = ListAppend(products, r.product)
                     /\ origin' = ListAppend(origin, idx + 1)
                     /\ UNCHANGED log
                ELSE UNCHANGED <<products, origin, log>>
    /\ idx' = idx + 1
    /\ UNCHANGED <<soup, selectors, pc, containers, self_products, result>>

\* A return that does not store the list.
ParseReturnNoStore ==
    /\ pc = "loop"
    /\ idx = Len(containers)
    /\ log' = Append(log, LogRecord("info", "Successfully extracted", Len(products)))
    /\ result' = ListResult(products)
    /\ pc' = "returned"
    /\ UNCHANGED <<soup, selectors, containers, idx, products, origin, self_products>>

\* self.products = products; return products
ParseReturn ==
    /\ pc = "loop"
    /\ idx = Len(containers)
    /\ self_products' = products
    /\ log' = Append(log, LogRecord("info", "Successfully extracted", Len(products)))
    /\ result' = ListResult(products)
    /\ pc' = "returned"
    /\ UNCHANGED <<soup, selectors, containers, idx, products, origin>>

parse_products == ParseBegin \/ ExtractStep \/ ParseReturn

(***************************************************************************)
(* CSVExporter.export                                                      *)
(***************************************************************************)
\* A dict handed to export keeps its key order: a sequence of <<key, value>>
\* pairs with distinct keys.
DictKeys(d) == [i \in 1..Len(d) |-> d[i][1]]

SeqRange(q) == {q[i] : i \in 1..Len(q)}

HasKey(d, key) == key \in SeqRange(DictKeys(d))

DictGet(d, key) == d[CHOOSE i \in 1..Len(d) : d[i][1] = key][2]

\* The text of a column label.
ColumnLabel(key) ==
    CASE key = "name" -> <<"n", "a", "m", "e">>
      [] key = "price" -> <<"p", "r", "i", "c", "e">>
      [] key = "rating" -> <<"r", "a", "t", "i", "n", "g">>
      [] OTHER -> <<"e", "x", "t", "r", "a">>

\* pd.DataFrame(products).columns: the keys of the dicts in the order in which
\* they are first seen; no column at all for an empty list.
RECURSIVE AddKeys(_, _)
AddKeys(cols, keys) ==
    IF keys = <<>> THEN cols
    ELSE AddKeys(IF Head(keys) \in SeqRange(cols) THEN cols ELSE Append(cols, Head(keys)),
                 Tail(keys))

RECURSIVE DataFrameColumns(_)
DataFrameColumns(prods) ==
    IF prods = <<>> THEN <<>>
    ELSE AddKeys(DataFrameColumns(SubSeq(prods, 1, Len(prods) - 1)),
                 DictKeys(prods[Len(prods)]))

\* columns = ['name', 'price', 'rating']
ColumnOrder == <<"name", "price", "rating">>

\* The columns in the order of the DataFrame, keys outside the three included.
ExportColumnsUnordered(prods) == DataFrameColumns(prods)

\* [col for col in columns if col in df.columns]
ExportColumns(prods) ==
    LET present(col) == col \in SeqRange(DataFrameColumns(prods))
    IN  SelectSeq(ColumnOrder, present)

\* The cell of one dict in one column; a dict without the key gives NaN, which
\* to_csv writes as the empty string.
Cell(d, col) == IF HasKey(d, col) THEN DictGet(d, col) ELSE <<>>

\* csv.writer with QUOTE_MINIMAL: a field holding the delimiter, the quote
\* character or a line break is quoted, its quotes doubled.
NeedsQuote(field) == \E i \in 1..Len(field) : field[i] \in {",", "\"", "\n", "\r"}

RECURSIVE DoubleQuotes(_)
DoubleQuotes(field) ==
    IF field = <<>> THEN <<>>
    ELSE (IF Head(field) = "\"" THEN <<"\"", "\"">> ELSE <<Head(field)>>)
         \o DoubleQuotes(Tail(field))

CsvField(field) ==
    IF NeedsQuote(field) THEN <<"\"">> \o DoubleQuotes(field) \o <<"\"">> ELSE field

RECURSIVE JoinFields(_)
JoinFields(cells) ==
    IF cells = <<>> THEN <<>>
    ELSE IF Len(cells) = 1 THEN CsvField(cells[1])
    ELSE CsvField(cells[1]) \o <<",">> \o JoinFields(Tail(cells))

\* writer.writerow(cells) without its line terminator: an empty row is an empty
\* line, and a row of one empty field is written "" to tell it from an empty row.
CsvRow(cells) ==
    IF Len(cells) = 1 /\ cells[1] = <<>> THEN <<"\"", "\"">> ELSE JoinFields(cells)

\* df.to_csv(filename, index=False): the header row, then one row per dict.
ToCsv(cols, prods) ==
    <<CsvRow([i \in 1..Len(cols) |-> ColumnLabel(cols[i])])>>
    \o [r \in 1..Len(prods) |->
            CsvRow([i \in 1..Len(cols) |-> Cell(prods[r], cols[i])])]

\* The file export writes: the lines of the text, without their terminators.
ExportFile(prods) == ToCsv(ExportColumns(prods), prods)

export ==
    /\ exp_pc = "ready"
    /\ exp_file' = ExportFile(exp_products)
    /\ exp_pc' = "done"
    /\ UNCHANGED exp_products
    /\ UNCHANGED parse_vars
    /\ UNCHANGED price_vars
    /\ UNCHANGED <<io_vars, session_vars, sw_vars>>

(***************************************************************************)
(* The inputs of export.                                                   *)
(***************************************************************************)
ExportKeys == {"name", "price", "rating", "extra"}

ExportValue(key) ==
    CASE key = "name" -> <<"A">>
      [] key = "price" -> <<"1", ",", "5">>
      [] key = "rating" -> <<"T">>
      [] OTHER -> <<"x">>

\* Key orders: the keys of a dict in any order, a key outside the three columns
\* coming first when there is one.
KeyOrders ==
    {q \in SeqsUpTo(ExportKeys, Cardinality(ExportKeys)) :
        /\ \A i, j \in 1..Len(q) : i # j => q[i] # q[j]
        /\ \A i \in 1..Len(q) : q[i] = "extra" => i = 1}

ExportDicts == {[i \in 1..Len(q) |-> <<q[i], ExportValue(q[i])>>] : q \in KeyOrders}

\* The record of the specification's example.
ExampleDict ==
    << <<"name", <<"A", " ", "L", "i", "g", "h", "t", " ", "i", "n", " ",
                   "t", "h", "e", " ", "A", "t", "t", "i", "c">> >>,
       <<"price", <<"5", "1", ".", "7", "7">> >>,
       <<"rating", <<"T", "h", "r", "e", "e">> >> >>

ExportInputs == SeqsUpTo(ExportDicts, MaxRecords) \cup {<<ExampleDict>>}

(***************************************************************************)
(* CSVExporter.export on the file system, one action per step of the call. *)
(***************************************************************************)
\* The argument filename: None, or a str.
NoFilename == [given |-> FALSE, name |-> <<>>]
Filename(n) == [given |-> TRUE, name |-> n]

OutCsv == <<"o", "u", "t", ".", "c", "s", "v">>

Filenames == {NoFilename, Filename(<<>>), Filename(OutCsv)}

DigitChar(n) == <<"0", "1", "2", "3", "4", "5", "6", "7", "8", "9">>[n + 1]

\* %H, %M, %S: two digits, zero padded
TwoDigits(n) == <<DigitChar(n \div 10), DigitChar(n % 10)>>

\* The day of the clock, as %Y%m%d.
Today == <<"2", "0", "2", "6", "1", "1", "0", "4">>

\* A stamp that stops at the minute.
TimestampToMinute(t) ==
    Today \o <<"_">> \o TwoDigits(t \div 3600) \o TwoDigits((t \div 60) % 60)

\* datetime.now().strftime('%Y%m%d_%H%M%S') at second t of the day
Timestamp(t) ==
    Today \o <<"_">> \o TwoDigits(t \div 3600) \o TwoDigits((t \div 60) % 60)
    \o TwoDigits(t % 60)

\* f'products_{timestamp}.csv'
GeneratedName(t) ==
    <<"p", "r", "o", "d", "u", "c", "t", "s", "_">> \o Timestamp(t)
    \o <<".", "c", "s", "v">>

\* if not filename: None and '' both give the generated name
FilenameGiven(filename) == filename.given /\ filename.name # <<>>

ResolveFilename(filename, t) ==
    IF FilenameGiven(filename) THEN filename.name ELSE GeneratedName(t)

\* The seconds of the clock: the last two of one minute and the next ones.
Seconds == 58..(58 + MaxTicks)

Paths == {OutCsv} \cup {GeneratedName(t) : t \in Seconds}

NoFile == [exists |-> FALSE, lines |-> <<>>]
File(lines) == [exists |-> TRUE, lines |-> lines]

NoPath == [kind |-> "none", value |-> <<>>]
PathResult(path) == [kind |-> "path", value |-> path]
RaisedPath == [kind |-> "raised", value |-> <<>>]

\* CSVExporter.export(prods, filename) is called.
ExportCall(prods, filename) ==
    /\ io_pc' = "called"
    /\ io_products' = prods
    /\ io_filename' = filename
    /\ io_path' = <<>>
    /\ io_written' = 0
    /\ io_result' = NoPath
    /\ io_attempts' = 0
    /\ exports' = exports + 1
    /\ UNCHANGED <<fs, clock, generated>>

\* The filename is resolved and to_csv opens it for writing: the open creates or
\* truncates the file, or fails and the except logs and re-raises.
ExportBegin ==
    /\ io_pc = "called"
    /\ LET path == ResolveFilename(io_filename, clock)
       IN  /\ io_path' = path
           /\ \/ /\ fs' = [fs EXCEPT ![path] = File(<<>>)]
                 /\ io_pc' = "writing"
                 /\ generated' =
                      IF FilenameGiven(io_filename) THEN generated
                      ELSE Append(generated, [second |-> clock, path |-> path])
                 /\ UNCHANGED io_result
              \/ /\ io_pc' = "raised"
                 /\ io_result' = RaisedPath
                 /\ UNCHANGED <<fs, generated>>
    /\ io_attempts' = io_attempts + 1
    /\ UNCHANGED <<clock, io_products, io_filename, io_written, exports>>

\* to_csv writes the next line of the text.
ExportWriteLine ==
    /\ io_pc = "writing"
    /\ io_written < Len(ExportFile(io_products))
    /\ fs' = [fs EXCEPT ![io_path] =
                File(Append(@.lines, ExportFile(io_products)[io_written + 1]))]
    /\ io_written' = io_written + 1
    /\ UNCHANGED <<clock, io_pc, io_products, io_filename, io_path, io_result,
                   io_attempts, exports, generated>>

\* A write fails (the disk is full): the except logs and re-raises; nothing
\* removes what was written.
ExportWriteFail ==
    /\ io_pc = "writing"
    /\ io_written < Len(ExportFile(io_products))
    /\ io_pc' = "raised"
    /\ io_result' = RaisedPath
    /\ UNCHANGED <<fs, clock, io_products, io_filename, io_path, io_written,
                   io_attempts, exports, generated>>

\* return filename
ExportReturn ==
    /\ io_pc = "writing"
    /\ io_written = Len(ExportFile(io_products))
    /\ io_pc' = "returned"
    /\ io_result' = PathResult(io_path)
    /\ UNCHANGED <<fs, clock, io_products, io_filename, io_path, io_written,
                   io_attempts, exports, generated>>

\* A second passes.
Tick ==
    /\ clock < 58 + MaxTicks
    /\ clock' = clock + 1
    /\ UNCHANGED <<fs, io_pc, io_products, io_filename, io_path, io_written,
                   io_result, io_attempts, exports, generated>>

\* The lists handed to export on the file system.
FullDict == [i \in 1..Len(ColumnOrder) |-> <<ColumnOrder[i], ExportValue(ColumnOrder[i])>>]

IOProducts == SeqsUpTo({FullDict}, MaxRecords)

\* A caller calls export.
ExportNew ==
    /\ io_pc \in {"idle", "returned", "raised"}
    /\ exports < MaxExports
    /\ \E prods \in IOProducts, filename \in Filenames : ExportCall(prods, filename)

(***************************************************************************)
(* One WebScraper over several calls of parse_products, and get_products.  *)
(***************************************************************************)
\* The pages: a container with its three fields, one without any, and one
\* whose extraction raises.
PageNodes ==
    {[matches |-> TRUE, name |-> Element(<<" ", "A">>), price |-> Element(<<"$", "5">>),
      rating |-> Element(<<"T">>)],
     [matches |-> TRUE, name |-> NoMatch, price |-> NoMatch, rating |-> NoMatch],
     [matches |-> TRUE, name |-> Element(<<" ", "A">>), price |-> NoMatch,
      rating |-> Raises]}

Pages == SeqsUpTo(PageNodes, MaxPageNodes)

\* The selector dicts of these calls: a complete one, one whose container
\* selector is rejected, one without the name key, one whose price selector is
\* rejected.
PageSelectors ==
    {sel \in UNION {[D -> {"valid", "invalid"}] : D \in SUBSET SelectorKeys} :
        \/ Defects(sel) = 0
        \/ Defects(sel) = 1 /\ "container" \in DOMAIN sel /\ sel["container"] = "invalid"
        \/ Defects(sel) = 1 /\ "name" \notin DOMAIN sel
        \/ Defects(sel) = 1 /\ "price" \in DOMAIN sel /\ sel["price"] = "invalid"}

\* What the caller can observe of the scraper and of the arguments.
Snapshot == [soup |-> soup, selectors |-> selectors, products |-> self_products]

\* The caller calls parse_products(soup, selectors) on the scraper again.
NewCall ==
    /\ pc \in {"returned", "raised"}
    /\ calls < MaxCalls
    /\ soup' \in Pages
    /\ selectors' \in PageSelectors
    /\ pc' = "idle"
    /\ containers' = <<>>
    /\ idx' = 0
    /\ products' = <<>>
    /\ origin' = <<>>
    /\ result' = NoResult
    /\ log' = <<>>
    /\ before' = [soup |-> soup', selectors |-> selectors', products |-> self_products]
    /\ UNCHANGED <<self_products, calls, last_returned, got>>

SessionParseBegin ==
    /\ ParseBegin
    /\ calls' = calls + 1
    /\ before' = Snapshot
    /\ got' = NoResult
    /\ UNCHANGED last_returned

SessionExtractStep ==
    /\ ExtractStep
    /\ UNCHANGED session_vars

SessionParseReturn ==
    /\ ParseReturn
    /\ last_returned' = result'.value
    /\ UNCHANGED <<calls, before, got>>

\* return self.products
get_products ==
    /\ pc \in {"idle", "returned", "raised"}
    /\ got' = ListResult(self_products)
    /\ UNCHANGED parse_vars
    /\ UNCHANGED <<calls, before, last_returned>>

(***************************************************************************)
(* scrape_website: fetch_page, parse_products, CSVExporter.export.         *)
(***************************************************************************)
\* return None
NoneResult == [kind |-> "null", value |-> <<>>]

\* The dict _extract_product built, with its keys in the order of insertion.
OrderedDict(product) ==
    << <<"name", product["name"]>>, <<"price", product["price"]>>,
       <<"rating", product["rating"]>> >>

OrderedDicts(prods) == [i \in 1..Len(prods) |-> OrderedDict(prods[i])]

\* A scrape_website that goes on to parse after a failed fetch.
SwFetchSwallow ==
    /\ sw_pc = "start"
    /\ fetch_calls' = fetch_calls + 1
    /\ \/ /\ soup' = webpage
          /\ fetched' = "ok"
       \/ /\ fetched' = "raised"
          /\ UNCHANGED soup
    /\ sw_pc' = "parsing"
    /\ UNCHANGED sw_result
    /\ UNCHANGED <<selectors, pc, containers, idx, products, origin, self_products,
                   result, log>>
    /\ UNCHANGED <<webpage, output_file, parse_calls, export_calls>>
    /\ UNCHANGED io_vars

\* scraper = WebScraper(url); soup = scraper.fetch_page(): the page is parsed,
\* or the request fails, fetch_page logs and re-raises and scrape_website logs
\* and re-raises.
SwFetch ==
    /\ sw_pc = "start"
    /\ fetch_calls' = fetch_calls + 1
    /\ \/ /\ soup' = webpage
          /\ fetched' = "ok"
          /\ sw_pc' = "parsing"
          /\ UNCHANGED sw_result
       \/ /\ fetched' = "raised"
          /\ sw_pc' = "raised"
          /\ sw_result' = RaisedPath
          /\ UNCHANGED soup
    /\ UNCHANGED <<selectors, pc, containers, idx, products, origin, self_products,
                   result, log>>
    /\ UNCHANGED <<webpage, output_file, parse_calls, export_calls>>
    /\ UNCHANGED io_vars

\* products = scraper.parse_products(soup, selectors)
SwParseBegin ==
    /\ sw_pc = "parsing"
    /\ ParseBegin
    /\ parse_calls' = parse_calls + 1
    /\ UNCHANGED <<webpage, output_file, sw_pc, sw_result, fetched, fetch_calls,
                   export_calls>>
    /\ UNCHANGED io_vars

SwExtractStep ==
    /\ sw_pc = "parsing"
    /\ ExtractStep
    /\ UNCHANGED sw_vars
    /\ UNCHANGED io_vars

SwParseReturn ==
    /\ sw_pc = "parsing"
    /\ ParseReturn
    /\ UNCHANGED sw_vars
    /\ UNCHANGED io_vars

\* parse_products raised: the except logs and re-raises.
SwParseRaised ==
    /\ sw_pc = "parsing"
    /\ pc = "raised"
    /\ sw_pc' = "raised"
    /\ sw_result' = RaisedPath
    /\ UNCHANGED parse_vars
    /\ UNCHANGED <<webpage, output_file, fetched, fetch_calls, parse_calls,
                   export_calls>>
    /\ UNCHANGED io_vars

\* if products: filename = CSVExporter.export(products, output_file)
SwCallExport ==
    /\ sw_pc = "parsing"
    /\ pc = "returned"
    /\ result.value # <<>>
    /\ ExportCall(OrderedDicts(result.value), output_file)
    /\ export_calls' = export_calls + 1
    /\ sw_pc' = "exporting"
    /\ UNCHANGED parse_vars
    /\ UNCHANGED <<webpage, output_file, sw_result, fetched, fetch_calls, parse_calls>>

\* A scrape_website that exports whatever the list holds.
SwExportAnyway ==
    /\ sw_pc = "parsing"
    /\ pc = "returned"
    /\ result.value = <<>>
    /\ ExportCall(OrderedDicts(result.value), output_file)
    /\ export_calls' = export_calls + 1
    /\ sw_pc' = "exporting"
    /\ UNCHANGED parse_vars
    /\ UNCHANGED <<webpage, output_file, sw_result, fetched, fetch_calls, parse_calls>>

\* else: logger.warning("No products found to export"); return None
SwNoProducts ==
    /\ sw_pc = "parsing"
    /\ pc = "returned"
    /\ result.value = <<>>
    /\ sw_pc' = "returned"
    /\ sw_result' = NoneResult
    /\ UNCHANGED parse_vars
    /\ UNCHANGED <<webpage, output_file, fetched, fetch_calls, parse_calls,
                   export_calls>>
    /\ UNCHANGED io_vars

\* The steps of export inside scrape_website.
SwExportStep ==
    /\ sw_pc = "exporting"
    /\ ExportBegin \/ ExportWriteLine \/ ExportWriteFail \/ ExportReturn
    /\ UNCHANGED parse_vars
    /\ UNCHANGED sw_vars

\* return filename
SwReturnFilename ==
    /\ sw_pc = "exporting"
    /\ io_pc = "returned"
    /\ sw_pc' = "returned"
    /\ sw_result' = io_result
    /\ UNCHANGED parse_vars
    /\ UNCHANGED <<webpage, output_file, fetched, fetch_calls, parse_calls,
                   export_calls>>
    /\ UNCHANGED io_vars

\* export raised: the except logs and re-raises.
SwExportRaised ==
    /\ sw_pc = "exporting"
    /\ io_pc = "raised"
    /\ sw_pc' = "raised"
    /\ sw_result' = RaisedPath
    /\ UNCHANGED parse_vars
    /\ UNCHANGED <<webpage, output_file, fetched, fetch_calls, parse_calls,
                   export_calls>>
    /\ UNCHANGED io_vars

scrape_website ==
    \/ SwFetch
    \/ SwParseBegin
    \/ SwExtractStep
    \/ SwParseReturn
    \/ SwParseRaised
    \/ SwCallExport
    \/ SwNoProducts
    \/ SwExportStep
    \/ SwReturnFilename
    \/ SwExportRaised

(***************************************************************************)
(* The inputs of _clean_price.                                             *)
(***************************************************************************)
PriceAlphabet == {"5", "U+0663", ".", ",", "$", " ", "N", "/", "A"}

\* '£51.77' (U+00A3 POUND SIGN), '$1,234.56' and 'Free'
ExamplePound == <<"U+00A3", "5", "1", ".", "7", "7">>
ExampleDollar == <<"$", "1", ",", "2", "3", "4", ".", "5", "6">>
ExampleFree == <<"F", "r", "e", "e">>

PriceInputs ==
    SeqsUpTo(PriceAlphabet, MaxPriceLen) \cup {ExamplePound, ExampleDollar, ExampleFree}

CleanPriceOnce ==
    /\ price_pc = "in"
    /\ price_once' = _clean_price(price_text)
    /\ price_pc' = "once"
    /\ UNCHANGED <<price_text, price_twice>>
    /\ UNCHANGED parse_vars
    /\ UNCHANGED export_vars
    /\ UNCHANGED <<io_vars, session_vars, sw_vars>>

CleanPriceTwice ==
    /\ price_pc = "once"
    /\ price_twice' = _clean_price(price_once)
    /\ price_pc' = "twice"
    /\ UNCHANGED <<price_text, price_once>>
    /\ UNCHANGED parse_vars
    /\ UNCHANGED export_vars
    /\ UNCHANGED <<io_vars, session_vars, sw_vars>>

(***************************************************************************)
(* Specifications.                                                         *)
(***************************************************************************)
\* WebScraper.__init__ and a call not yet started.
ParseIdle ==
    /\ pc = "idle"
    /\ containers = <<>>
    /\ idx = 0
    /\ products = <<>>
    /\ origin = <<>>
    /\ self_products = <<>>
    /\ result = NoResult
    /\ log = <<>>

PriceIdle ==
    /\ price_pc = "in"
    /\ price_once = <<>>
    /\ price_twice = <<>>

ExportIdle ==
    /\ exp_pc = "ready"
    /\ exp_file = <<>>

\* An empty file system and no call of export.
IoIdle ==
    /\ fs = [path \in Paths |-> NoFile]
    /\ clock = 58
    /\ io_pc = "idle"
    /\ io_products = <<>>
    /\ io_filename = NoFilename
    /\ io_path = <<>>
    /\ io_written = 0
    /\ io_result = NoPath
    /\ io_attempts = 0
    /\ exports = 0
    /\ generated = <<>>

SessionIdle ==
    /\ calls = 0
    /\ before = Snapshot
    /\ last_returned = <<>>
    /\ got = NoResult

SwIdle ==
    /\ webpage = <<>>
    /\ output_file = NoFilename
    /\ sw_pc = "idle"
    /\ sw_result = NoPath
    /\ fetched = "no"
    /\ fetch_calls = 0
    /\ parse_calls = 0
    /\ export_calls = 0

\* One call of parse_products on a fresh scraper.
Init ==
    /\ soup \in Documents
    /\ selectors \in SelectorConfigs
    /\ ParseIdle
    /\ price_text = <<>>
    /\ PriceIdle
    /\ exp_products = <<>>
    /\ ExportIdle
    /\ IoIdle
    /\ SessionIdle
    /\ SwIdle

\* What a call of parse_products leaves alone.
ParseFrame ==
    /\ UNCHANGED price_vars
    /\ UNCHANGED export_vars
    /\ UNCHANGED <<io_vars, session_vars, sw_vars>>

Next ==
    \/ ParseBegin /\ ParseFrame
    \/ ExtractStep /\ ParseFrame
    \/ ParseReturn /\ ParseFrame

Spec == Init /\ [][Next]_vars

\* _clean_price applied to a price text, and to its own result.
InitPrice ==
    /\ soup = <<>>
    /\ selectors \in {s \in SelectorConfigs : Defects(s) = 0}
    /\ ParseIdle
    /\ price_text \in PriceInputs
    /\ PriceIdle
    /\ exp_products = <<>>
    /\ ExportIdle
    /\ IoIdle
    /\ SessionIdle
    /\ SwIdle

NextPrice == CleanPriceOnce \/ CleanPriceTwice

SpecPrice == InitPrice /\ [][NextPrice]_vars

\* One call of export.
InitExport ==
    /\ soup = <<>>
    /\ selectors \in {s \in SelectorConfigs : Defects(s) = 0}
    /\ ParseIdle
    /\ price_text = <<>>
    /\ PriceIdle
    /\ exp_products \in ExportInputs
    /\ ExportIdle
    /\ IoIdle
    /\ SessionIdle
    /\ SwIdle

NextExport == export

SpecExport == InitExport /\ [][NextExport]_vars

\* Calls of export on one file system, while time passes.
InitExportIO ==
    /\ soup = <<>>
    /\ selectors \in {s \in SelectorConfigs : Defects(s) = 0}
    /\ ParseIdle
    /\ price_text = <<>>
    /\ PriceIdle
    /\ exp_products = <<>>
    /\ ExportIdle
    /\ IoIdle
    /\ SessionIdle
    /\ SwIdle

\* What a call of export on the file system leaves alone.
IoFrame ==
    /\ UNCHANGED parse_vars
    /\ UNCHANGED price_vars
    /\ UNCHANGED export_vars
    /\ UNCHANGED <<session_vars, sw_vars>>

NextExportIO ==
    \/ ExportNew /\ IoFrame
    \/ ExportBegin /\ IoFrame
    \/ ExportWriteLine /\ IoFrame
    \/ ExportWriteFail /\ IoFrame
    \/ ExportReturn /\ IoFrame
    \/ Tick /\ IoFrame

SpecExportIO == InitExportIO /\ [][NextExportIO]_vars

\* Calls of parse_products and get_products on one scraper.
InitSession ==
    /\ soup \in Pages
    /\ selectors \in PageSelectors
    /\ ParseIdle
    /\ price_text = <<>>
    /\ PriceIdle
    /\ exp_products = <<>>
    /\ ExportIdle
    /\ IoIdle
    /\ SessionIdle
    /\ SwIdle

\* What the scraper's calls leave alone.
SessionFrame ==
    /\ UNCHANGED price_vars
    /\ UNCHANGED export_vars
    /\ UNCHANGED <<io_vars, sw_vars>>

NextSession ==
    \/ SessionParseBegin /\ SessionFrame
    \/ SessionExtractStep /\ SessionFrame
    \/ SessionParseReturn /\ SessionFrame
    \/ NewCall /\ SessionFrame
    \/ get_products /\ SessionFrame

SpecSession == InitSession /\ [][NextSession]_vars

\* One call of scrape_website(url, selectors, output_file).
InitPipeline ==
    /\ soup = <<>>
    /\ selectors \in SelectorConfigs
    /\ ParseIdle
    /\ price_text = <<>>
    /\ PriceIdle
    /\ exp_products = <<>>
    /\ ExportIdle
    /\ IoIdle
    /\ SessionIdle
    /\ webpage \in Pages
    /\ output_file \in Filenames
    /\ sw_pc = "start"
    /\ sw_result = NoPath
    /\ fetched = "no"
    /\ fetch_calls = 0
    /\ parse_calls = 0
    /\ export_calls = 0

\* What scrape_website leaves alone.
PipelineFrame ==
    /\ UNCHANGED price_vars
    /\ UNCHANGED export_vars
    /\ UNCHANGED session_vars

NextPipeline ==
    \/ SwFetch /\ PipelineFrame
    \/ SwParseBegin /\ PipelineFrame
    \/ SwExtractStep /\ PipelineFrame
    \/ SwParseReturn /\ PipelineFrame
    \/ SwParseRaised /\ PipelineFrame
    \/ SwCallExport /\ PipelineFrame
    \/ SwNoProducts /\ PipelineFrame
    \/ SwExportStep /\ PipelineFrame
    \/ SwReturnFilename /\ PipelineFrame
    \/ SwExportRaised /\ PipelineFrame

SpecPipeline == InitPipeline /\ [][NextPipeline]_vars

(***************************************************************************)
(* Properties of parse_products (specification Spec).                      *)
(***************************************************************************)
Chars ==
    Digits \cup Whitespace \cup {".", ",", "/", "$", "N", "A", "T", "U+00A3"}

ProductKeys == {"name", "price", "rating"}

\* The container a record of the list under construction was extracted from.
SourceOf(k) == containers[origin[k]]

\* The nodes of the document the container selector matches.
Matched == {i \in 1..Len(soup) : soup[i].matches}

\* The containers whose extraction raises.
Raising == {i \in 1..Len(containers) : _extract_product(containers[i], selectors).raised}

WarningsFor(i) ==
    {j \in 1..Len(log) : log[j].level = "warning" /\ log[j].n = i}

\* C1: every record parse_products produces has exactly the keys name, price and
\* rating, each holding a string, and a field whose sub-selector matches no
\* descendant of the record's container is "N/A".
C1_RecordShape ==
    /\ \A k \in 1..Len(products) :
        /\ DOMAIN products[k] = ProductKeys
        /\ \A f \in ProductKeys :
            /\ products[k][f] \in Seq(Chars)
            /\ SourceOf(k)[f] = NoMatch => products[k][f] = NA
    /\ pc = "returned" => result = ListResult(products)

C1_Witness ==
    /\ pc = "returned"
    /\ \E k \in 1..Len(result.value) :
        /\ SourceOf(k).name = NoMatch
        /\ SourceOf(k).price # NoMatch
        /\ result.value[k].name = NA
        /\ result.value[k].price = <<"5">>

\* C4: parse_products returns a list no longer than the number of nodes the
\* container selector matches, and the empty list, without an error, when it
\* matches none.
C4_ListNoLongerThanMatched ==
    /\ pc = "returned" =>
        /\ result.kind = "list"
        /\ Len(result.value) <= Cardinality(Matched)
    /\ (pc \in {"returned", "raised"} /\ ~SelectorRaises(selectors, "container")
            /\ Matched = {}) =>
        /\ pc = "returned"
        /\ result = ListResult(<<>>)

C4_Witness ==
    /\ pc = "returned"
    /\ Len(soup) > 0
    /\ Matched = {}
    /\ result = ListResult(<<>>)

\* C5: the records are in the document order of the containers they were
\* extracted from, none duplicated or reordered, whatever the containers hold.
C5_DocumentOrder ==
    /\ \A k \in 1..Len(products) :
        /\ origin[k] \in 1..idx
        /\ products[k] = _extract_product(containers[origin[k]], selectors).product
    /\ \A j, k \in 1..Len(origin) : j < k => origin[j] < origin[k]
    /\ Len(origin) = Len(products)
    /\ pc = "returned" => result.value = products

C5_Witness ==
    /\ pc = "returned"
    /\ Len(result.value) = 2
    /\ result.value[1] # result.value[2]
    /\ origin = <<1, 2>>

C9_RaisesOnlyForContainerSelector ==
    /\ pc = "raised" <=> (pc # "idle" /\ SelectorRaises(selectors, "container"))
    /\ pc = "raised" => result = RaisedResult
    /\ pc = "returned" => result.kind = "list"

C9_Witness ==
    /\ pc = "raised"
    /\ "container" \in DOMAIN selectors
    /\ selectors["container"] = "invalid"
    /\ Len(soup) > 0

\* The field selectors the query engine rejects.
InvalidFields == {f \in ProductKeys \cap DOMAIN selectors : selectors[f] = "invalid"}

\* C10 as stated: with an invalid field selector and a valid container selector
\* each matched container still yields a record, the field being "N/A".
C10_InvalidFieldGivesSentinel ==
    (pc = "returned" /\ InvalidFields # {}) =>
        /\ Len(result.value) = Len(containers)
        /\ \A k \in 1..Len(result.value) : \A f \in InvalidFields :
            result.value[k][f] = NA

\* C10 amended: with an invalid field selector and a valid container selector
\* every matched container is skipped with a warning and the call returns the
\* empty list without raising.
C10_InvalidFieldSkipsEveryContainer ==
    (InvalidFields # {} /\ ~SelectorRaises(selectors, "container")) =>
        /\ pc # "raised"
        /\ products = <<>>
        /\ pc = "returned" =>
            /\ result = ListResult(<<>>)
            /\ \A i \in 1..Len(containers) : Cardinality(WarningsFor(i)) = 1

C10_Witness ==
    /\ pc = "returned"
    /\ InvalidFields = {"price"}
    /\ Len(containers) = 2
    /\ result = ListResult(<<>>)

(***************************************************************************)
(* Properties of _clean_price (specification SpecPrice).                   *)
(***************************************************************************)
\* The characters of a text that are a decimal digit, '.' or ',', in their order.
Surviving(text) ==
    LET keep(c) == c \in Digits \cup {".", ","}
    IN  SelectSeq(text, keep)

C3_Idempotent == price_pc = "twice" => price_twice = price_once

C3_Witness ==
    /\ price_pc = "twice"
    /\ price_text = ExampleFree
    /\ price_once = NA
    /\ price_twice = NA

(***************************************************************************)
(* Properties of export (specification SpecExport).                        *)
(***************************************************************************)
\* The line name,price,rating
HeaderLine ==
    <<"n", "a", "m", "e", ",", "p", "r", "i", "c", "e", ",", "r", "a",
      "t", "i", "n", "g">>

\* The line A Light in the Attic,51.77,Three
ExampleLine ==
    <<"A", " ", "L", "i", "g", "h", "t", " ", "i", "n", " ", "t", "h",
      "e", " ", "A", "t", "t", "i", "c", ",", "5", "1", ".", "7", "7",
      ",", "T", "h", "r", "e", "e">>

\* C7: export of an empty list writes a file holding exactly the header line
\* name,price,rating and no data row.
C7_EmptyExportWritesHeader ==
    (exp_pc = "done" /\ exp_products = <<>>) => exp_file = <<HeaderLine>>

\* The columns of the three that some dict of the list has, in the fixed order.
ColumnsPresent(prods) ==
    LET present(col) == \E r \in 1..Len(prods) : HasKey(prods[r], col)
    IN  SelectSeq(<<"name", "price", "rating">>, present)

C11_FailedExportLeavesNoPartialFile ==
    io_pc = "raised" =>
        /\ io_attempts = 1
        /\ io_result = RaisedPath
        /\ \/ ~fs[io_path].exists
           \/ fs[io_path].lines = ExportFile(io_products)

\* C12 as stated: export returns the supplied filename when one is given, and
\* no two calls without a filename write to the same path.
C12_GeneratedNamesNeverCollide ==
    /\ (io_pc = "returned" /\ FilenameGiven(io_filename)) =>
        io_result = PathResult(io_filename.name)
    /\ \A i, j \in 1..Len(generated) :
        i # j => generated[i].path # generated[j].path

\* The name generated at 00:01:00 of the day.
NameAtFirstMinute ==
    <<"p", "r", "o", "d", "u", "c", "t", "s", "_", "2", "0", "2", "6", "1", "1",
      "0", "4", "_", "0", "0", "0", "1", "0", "0", ".", "c", "s", "v">>

\* C12 amended: export returns the path it wrote to, the supplied filename when
\* a non-empty one is given and otherwise the name generated from the second of
\* the clock; two calls without a filename write to different paths exactly when
\* they read different seconds, and a later call in the same second overwrites
\* the file of the earlier one.
C12_GeneratedNamesCollideWithinOneSecond ==
    /\ io_pc = "returned" =>
        /\ io_result = PathResult(io_path)
        /\ fs[io_path] = File(ExportFile(io_products))
        /\ (io_filename.given /\ io_filename.name # <<>>) => io_path = io_filename.name
        /\ ~(io_filename.given /\ io_filename.name # <<>>) =>
            /\ generated # <<>>
            /\ io_path = generated[Len(generated)].path
    /\ \A i, j \in 1..Len(generated) :
        generated[i].path = generated[j].path <=> generated[i].second = generated[j].second
    /\ \A i \in 1..Len(generated) :
        /\ generated[i].path # OutCsv
        /\ generated[i].second = 60 => generated[i].path = NameAtFirstMinute

C12_Witness ==
    /\ io_pc = "returned"
    /\ exports = 2
    /\ Len(generated) = 2
    /\ generated[1].second = generated[2].second
    /\ generated[1].path = generated[2].path
    /\ io_products = <<>>
    /\ fs[io_path] = File(ExportFile(<<>>))

(***************************************************************************)
(* Properties of a scraper used again (specification SpecSession).         *)
(***************************************************************************)
\* What a first call on a fresh scraper returns for a list of containers: the
\* records of those whose extraction does not raise, in their order.
RECURSIVE Extracted(_, _)
Extracted(cs, sel) ==
    IF cs = <<>> THEN <<>>
    ELSE LET r == _extract_product(Head(cs), sel)
         IN  (IF r.raised THEN <<>> ELSE <<r.product>>) \o Extracted(Tail(cs), sel)

\* C13: whatever calls came before on the scraper, a call returns, or raises,
\* as a first call on a fresh scraper does for the same document and selectors.
C13_CallsIndependent ==
    /\ pc = "returned" => result = ListResult(Extracted(Select(soup), selectors))
    /\ pc \in {"returned", "raised"} =>
        (pc = "raised" <=> SelectorRaises(selectors, "container"))

C13_Witness ==
    /\ calls = 2
    /\ pc = "returned"
    /\ Len(before.products) = 2
    /\ Len(result.value) = 1
    /\ result.value[1] # before.products[1]

C17_GetProductsLatestReturn ==
    /\ got.kind = "list" => got.value = last_returned
    /\ pc = "raised" => self_products = before.products
    /\ (calls = 0 \/ (calls = 1 /\ pc \in {"loop", "raised"})) =>
        /\ last_returned = <<>>
        /\ self_products = <<>>

C17_Witness ==
    /\ calls = 2
    /\ pc = "raised"
    /\ got = ListResult(last_returned)
    /\ Len(last_returned) = 2

(***************************************************************************)
(* Properties of scrape_website (specification SpecPipeline).              *)
(***************************************************************************)
NoFileWritten == \A path \in Paths : fs[path] = NoFile

\* C15: scrape_website fetches, then parses, then exports, each at most once
\* and only after the one before returned normally; after a raise of fetch_page
\* or of parse_products no later stage runs, the caller gets the exception and
\* no file is written.
C15_FetchParseExportInOrder ==
    /\ fetch_calls <= 1 /\ parse_calls <= 1 /\ export_calls <= 1
    /\ parse_calls = 1 => (fetch_calls = 1 /\ fetched = "ok")
    /\ export_calls = 1 => (parse_calls = 1 /\ pc = "returned")
    /\ fetched = "raised" =>
        /\ parse_calls = 0 /\ export_calls = 0
        /\ sw_pc = "raised" /\ sw_result = RaisedPath
        /\ NoFileWritten
    /\ pc = "raised" =>
        /\ export_calls = 0
        /\ sw_pc \in {"parsing", "raised"}
        /\ sw_pc = "raised" => sw_result = RaisedPath
        /\ NoFileWritten

C15_Witness ==
    /\ sw_pc = "raised"
    /\ pc = "raised"
    /\ webpage # <<>>
    /\ fetch_calls = 1
    /\ parse_calls = 1
    /\ export_calls = 0

MissingFields == ProductKeys \ DOMAIN selectors

\* C18: with the container key present and a field key absent, parse_products
\* does not raise: every matched container is skipped with a warning, the call
\* returns the empty list and scrape_website returns None without exporting.
C18_MissingFieldKeySkipsEveryContainer ==
    (MissingFields # {} /\ ~SelectorRaises(selectors, "container")) =>
        /\ pc # "raised"
        /\ products = <<>>
        /\ pc = "returned" =>
            /\ result = ListResult(<<>>)
            /\ \A i \in 1..Len(containers) : Cardinality(WarningsFor(i)) = 1
        /\ sw_pc \in {"start", "parsing", "returned"} \/ fetched = "raised"
        /\ sw_pc = "returned" => sw_result = NoneResult
        /\ export_calls = 0
        /\ NoFileWritten

C18_Witness ==
    /\ sw_pc = "returned"
    /\ MissingFields = {"rating"}
    /\ Len(containers) = 2
    /\ Len(log) = 4
    /\ sw_result = NoneResult

====
